---- MODULE Spec2Model ----
(***************************************************************************)
(* Model of the trading-signal SaaS backend: the in-process key-value      *)
(* store (MockRedis), the fixed-window rate limiter (check_rate_limit and  *)
(* the signal quota of get_signals), the signal cache, and the Stripe      *)
(* webhook processor with its idempotency markers.                         *)
(*                                                                         *)
(* Time is the value of time.time() in seconds, counted from local         *)
(* midnight of day 0, so date.today() is now \div 86400.                   *)
(*                                                                         *)
(* REDIS_AVAILABLE is the flag redis_client.py sets at import: TRUE when   *)
(* the Redis server answered the ping and redis_client is the client of    *)
(* that server, FALSE when redis_client is the MockRedis of the process.   *)
(* reachable tells whether the server answers now.  The commands of the    *)
(* server are modelled by those of MockRedis, which mimics them.           *)
(***************************************************************************)
EXTENDS Integers, Sequences, FiniteSets, TLC

VARIABLES now, redis_client, db, last, win, procs, REDIS_AVAILABLE, reachable, log

vars == <<now, redis_client, db, last, win, procs, REDIS_AVAILABLE, reachable, log>>

(***************************************************************************)
(* Bounds of the model                                                     *)
(***************************************************************************)
\* days 0..MaxDay are covered by the clock
MaxDay == 1
\* a handler is not called again once a window has seen Limit + MaxExtra calls
MaxExtra == 2
\* number of distinct random batches generate_mock_signals can return
MaxBatches == 2
\* number of distinct event ids the payment provider delivers
MaxEvents == 1
\* number of requests that can be in flight at once
NProcs == 2
\* signups and logins of one client address where the users table is followed
MaxAuthCalls == 2
\* a key of the store is not incremented beyond this value when the store is
\* driven directly
MaxValue == 3

(***************************************************************************)
(* Program constants                                                       *)
(***************************************************************************)
AUTH_LIMIT == 10
AUTH_WINDOW == 60
SIGNAL_LIMIT == 3
SIGNAL_TTL == 86400
CACHE_TTL == 300
EVENT_TTL == 86400
SECONDS_PER_DAY == 86400
FREE_SIGNALS == 3
SIGNALS_PER_SYMBOL == 5

None == -1

IPs == {"ip1"}
Emails == {"a", "b"}
Batches == 1..MaxBatches

\* instants at which the clock is observed: inside a 60 s window, exactly at
\* its expiry time and just after it, then midnight of each later day
Offsets == {0, 60, 61}
\* the marker of an event lives for a day: midnight and one minute past it
DayInstants == {d * SECONDS_PER_DAY + o : d \in 0..MaxDay, o \in {0, 60}}
Instants == Offsets \cup {d * SECONDS_PER_DAY : d \in 1..MaxDay}

(***************************************************************************)
(* Python dict helpers                                                     *)
(***************************************************************************)
Put(f, k, v) == [x \in (DOMAIN f) \cup {k} |-> IF x = k THEN v ELSE f[x]]
Del(f, k) == [x \in (DOMAIN f) \ {k} |-> f[x]]
EmptyDict == [x \in {} |-> None]

(***************************************************************************)
(* MockRedis: r is the record [data, expiry] of the two dicts, t is        *)
(* time.time() at the call.                                                *)
(***************************************************************************)
MockRedis_init == [data |-> EmptyDict, expiry |-> EmptyDict]

MockRedis_expired(r, key, t) == key \in DOMAIN r.expiry /\ t > r.expiry[key]

MockRedis_purge(r, key, t) ==
    IF MockRedis_expired(r, key, t)
    THEN [data |-> Del(r.data, key), expiry |-> Del(r.expiry, key)]
    ELSE r

\* get: [r |-> store after the call, ret |-> value or None]
MockRedis_get(r, key, t) ==
    LET q == MockRedis_purge(r, key, t)
    IN [r |-> q, ret |-> IF key \in DOMAIN q.data THEN q.data[key] ELSE None]

MockRedis_setex(r, key, ex, value, t) ==
    [data |-> Put(r.data, key, value), expiry |-> Put(r.expiry, key, t + ex)]

\* incr: [r |-> store after the call, ret |-> new value]
MockRedis_incr(r, key, t) ==
    LET q == MockRedis_purge(r, key, t)
        v == IF key \in DOMAIN q.data THEN q.data[key] + 1 ELSE 1
    IN [r |-> [data |-> Put(q.data, key, v), expiry |-> q.expiry], ret |-> v]

MockRedis_set(r, key, value) == [data |-> Put(r.data, key, value), expiry |-> r.expiry]

\* the expiry time is written whether or not the key holds a value
MockRedis_expire_unchecked(r, key, ex, t) == [data |-> r.data, expiry |-> Put(r.expiry, key, t + ex)]
MockRedis_expire(r, key, ex, t) ==
    IF key \in DOMAIN r.data THEN [data |-> r.data, expiry |-> Put(r.expiry, key, t + ex)] ELSE r

MockRedis_delete(r, key) == [data |-> Del(r.data, key), expiry |-> Del(r.expiry, key)]

(***************************************************************************)
(* Keys of the shared store                                                *)
(***************************************************************************)
NoDay == -1
\* signup and login of an address count on one key
RateKey_no_purpose(purpose, client_ip) == [ns |-> "rate_limit:", id |-> client_ip, day |-> NoDay]
\* the date is left out of the key
SignalKey_no_date(user_id, today) == [ns |-> "signal_limit", id |-> user_id, day |-> NoDay]
RateKey(purpose, client_ip) == [ns |-> "rate_limit:" \o purpose, id |-> client_ip, day |-> NoDay]
SignalKey(user_id, today) == [ns |-> "signal_limit", id |-> user_id, day |-> today]
\* one cache entry for all days
CacheKey_no_date(today) == [ns |-> "signals:all", id |-> "", day |-> NoDay]
CacheKey(today) == [ns |-> "signals:all", id |-> "", day |-> today]
EventKey(event_id) == [ns |-> "stripe_event", id |-> event_id, day |-> NoDay]

Today(t) == t \div SECONDS_PER_DAY

(***************************************************************************)
(* auth.check_rate_limit                                                   *)
(***************************************************************************)
\* the comparison slips to <=: one call too many is admitted
check_rate_limit_off_by_one(r, key, limit, window, t) ==
    LET g == MockRedis_get(r, key, t)
    IN IF g.ret = None
       THEN [r |-> MockRedis_setex(g.r, key, window, 1, t), ret |-> TRUE]
       ELSE IF g.ret <= limit
            THEN [r |-> MockRedis_incr(g.r, key, t).r, ret |-> TRUE]
            ELSE [r |-> g.r, ret |-> FALSE]

\* the counter is incremented before the comparison: a denial consumes quota
check_rate_limit_incr_first(r, key, limit, window, t) ==
    LET g == MockRedis_get(r, key, t)
    IN IF g.ret = None
       THEN [r |-> MockRedis_setex(g.r, key, window, 1, t), ret |-> TRUE]
       ELSE [r |-> MockRedis_incr(g.r, key, t).r, ret |-> g.ret < limit]

\* a denial drops the counter: the call after it opens a new count
check_rate_limit_write_reopens(r, key, limit, window, current, t) ==
    IF current = None
    THEN [r |-> MockRedis_setex(r, key, window, 1, t), ret |-> TRUE]
    ELSE IF current < limit
         THEN [r |-> MockRedis_incr(r, key, t).r, ret |-> TRUE]
         ELSE [r |-> [data |-> Del(r.data, key), expiry |-> Del(r.expiry, key)], ret |-> FALSE]

\* lines 31-37: what the function does with the value `current` it has read
check_rate_limit_write(r, key, limit, window, current, t) ==
    IF current = None
    THEN [r |-> MockRedis_setex(r, key, window, 1, t), ret |-> TRUE]
    ELSE IF current < limit
         THEN [r |-> MockRedis_incr(r, key, t).r, ret |-> TRUE]
         ELSE [r |-> r, ret |-> FALSE]

check_rate_limit(r, key, limit, window, t) ==
    LET g == MockRedis_get(r, key, t)
    IN check_rate_limit_write(g.r, key, limit, window, g.ret, t)

(***************************************************************************)
(* The users table: db maps the identity of each registered account to its *)
(* row.  NULL is the SQL NULL of the nullable stripe_customer_id column.   *)
(***************************************************************************)
NULL == "NULL"
User(is_paid, stripe_customer_id) ==
    [is_paid |-> is_paid, stripe_customer_id |-> stripe_customer_id]

(***************************************************************************)
(* signals.generate_mock_signals: ten entries, five per symbol; the random *)
(* content is the batch number g, entry i of batch g is <<g, i>> (entries *)
(* 1..5 are NIFTY, 6..10 BANKNIFTY).  json.dumps turns a list of entries  *)
(* into the stored string, json.loads parses the string back into the list *)
(* it encodes.  The lists that occur are the leading entries of a batch;   *)
(* the string of such a list is coded by its length and its batch number.  *)
(***************************************************************************)
generate_mock_signals(g) ==
    [i \in 1..(2 * SIGNALS_PER_SYMBOL) |->
        <<g, i>>]
json_dumps(signals_data) ==
    IF signals_data = <<>> THEN 0 ELSE Len(signals_data) * (MaxBatches + 1) + signals_data[1][1]
json_loads(cached_signals) ==
    SubSeq(generate_mock_signals(cached_signals % (MaxBatches + 1)), 1, cached_signals \div (MaxBatches + 1))
\* the list is not cut
Truncate_nothing(signals_data, k) == signals_data
Truncate(signals_data, k) == SubSeq(signals_data, 1, IF Len(signals_data) < k THEN Len(signals_data) ELSE k)

(***************************************************************************)
(* The response of the last request, and the request history per window    *)
(***************************************************************************)
\* seq flips with every request served; arg and event_type are filled in by the
\* webhook (the verification outcome and the event_type of the reply)
Response(op, id, code, detail, signals) ==
    [seq |-> 1 - last.seq, op |-> op, id |-> id, arg |-> "", code |-> code, detail |-> detail,
     event_type |-> "", signals |-> signals]

Slot(purpose, id) == [purpose |-> purpose, id |-> id]
Slots == {Slot(p, ip) : p \in {"signup", "login"}, ip \in IPs} \cup {Slot("signal", u) : u \in Emails}
Limit(slot) == IF slot.purpose = "signal" THEN SIGNAL_LIMIT ELSE AUTH_LIMIT

\* t lies in the window that the first call of the slot opened at win[slot].start
InWindow(slot, t) ==
    /\ win[slot].start # None
    /\ IF slot.purpose = "signal"
       THEN Today(t) = Today(win[slot].start)
       ELSE t <= win[slot].start + AUTH_WINDOW
Calls(slot, t) == IF InWindow(slot, t) THEN win[slot].calls ELSE 0
\* one more call of the slot at time t, allowed or denied
Count(slot, t, allowed) ==
    LET n == IF allowed THEN 1 ELSE 0
    IN [win EXCEPT ![slot] = IF InWindow(slot, t)
                             THEN [start |-> win[slot].start, calls |-> win[slot].calls + 1,
                                   allowed |-> win[slot].allowed + n]
                             ELSE [start |-> t, calls |-> 1, allowed |-> n]]
MayCall(slot) == Calls(slot, now) < Limit(slot) + MaxExtra

\* The record of a run, kept only in the specifications whose properties speak
\* of earlier steps: the calls a rate limiter answered and the entitlement
\* commits, in the order they happened. value is "the call was allowed" for a
\* call and the is_paid written for a commit; window is the instant at which
\* the counting window of a call was opened.
NoLog == [on |-> FALSE, entries |-> <<>>]
EmptyLog == [on |-> TRUE, entries |-> <<>>]
Record(op, id, value, window) ==
    IF log.on
    THEN [log EXCEPT !.entries = Append(@, [op |-> op, id |-> id, t |-> now, value |-> value,
                                            window |-> window])]
    ELSE log

(***************************************************************************)
(* auth.signup and auth.login                                              *)
(***************************************************************************)
Signup(client_ip, email) ==
    /\ MayCall(Slot("signup", client_ip))
    /\ LET rl == check_rate_limit(redis_client, RateKey("signup", client_ip), AUTH_LIMIT, AUTH_WINDOW, now)
       IN /\ redis_client' = rl.r
          /\ IF ~rl.ret
             THEN /\ last' = Response("signup", client_ip, 429, "Too many signup attempts", <<>>)
                  /\ db' = db
             ELSE IF email \in DOMAIN db
                  THEN /\ last' = Response("signup", client_ip, 400, "Email already registered", <<>>)
                       /\ db' = db
                  ELSE /\ last' = Response("signup", client_ip, 201, "bearer", <<>>)
                       /\ db' = Put(db, email, User(FALSE, NULL))
    /\ win' = Count(Slot("signup", client_ip), now, last'.code # 429)
    /\ log' = Record("signup", client_ip, last'.code # 429, win'[Slot("signup", client_ip)].start)
    /\ UNCHANGED <<REDIS_AVAILABLE, reachable, now, procs>>

Login(client_ip, email, password_ok) ==
    /\ MayCall(Slot("login", client_ip))
    /\ LET rl == check_rate_limit(redis_client, RateKey("login", client_ip), AUTH_LIMIT, AUTH_WINDOW, now)
       IN /\ redis_client' = rl.r
          /\ IF ~rl.ret
             THEN last' = Response("login", client_ip, 429, "Too many login attempts", <<>>)
             ELSE IF email \notin DOMAIN db \/ ~password_ok
                  THEN last' = Response("login", client_ip, 401, "Incorrect email or password", <<>>)
                  ELSE last' = Response("login", client_ip, 200, "bearer", <<>>)
    /\ win' = Count(Slot("login", client_ip), now, last'.code # 429)
    /\ log' = Record("login", client_ip, last'.code # 429, win'[Slot("login", client_ip)].start)
    /\ UNCHANGED <<REDIS_AVAILABLE, reachable, now, db, procs>>

(***************************************************************************)
(* signals.get_signals                                                     *)
(***************************************************************************)
\* lines 47-57: what the handler does with the value `count` it has read:
\* [r |-> store, ret |-> TRUE unless the daily limit is exceeded]
signal_quota_write(r, user_id, today, count, t) ==
    LET rate_key == SignalKey(user_id, today)
    IN IF count # None /\ count # 0 /\ count >= SIGNAL_LIMIT
       THEN [r |-> r, ret |-> FALSE]
       ELSE IF count = None
            THEN [r |-> MockRedis_setex(r, rate_key, SIGNAL_TTL, 1, t), ret |-> TRUE]
            ELSE [r |-> MockRedis_incr(r, rate_key, t).r, ret |-> TRUE]

\* the stored count is ignored: every request opens the day anew
signal_quota_restarts(r, user_id, today, t) ==
    signal_quota_write(r, user_id, today, None, t)

\* lines 44-57
signal_quota(r, user_id, today, t) ==
    LET g == MockRedis_get(r, SignalKey(user_id, today), t)
    IN signal_quota_write(g.r, user_id, today, g.ret, t)

\* a hit is ignored: the batch is generated again and not stored
signal_cache_write_recompute(r, today, cached_signals, g, t) ==
    IF cached_signals # None
    THEN [r |-> r, signals_data |-> generate_mock_signals(g)]
    ELSE [r |-> MockRedis_setex(r, CacheKey(today), CACHE_TTL, json_dumps(generate_mock_signals(g)), t),
          signals_data |-> generate_mock_signals(g)]

\* lines 63-69: what the handler does with the value `cached_signals` it has
\* read: [r |-> store, signals_data |-> the batch served]
signal_cache_write(r, today, cached_signals, g, t) ==
    IF cached_signals # None
    THEN [r |-> r, signals_data |-> json_loads(cached_signals)]
    ELSE [r |-> MockRedis_setex(r, CacheKey(today), CACHE_TTL, json_dumps(generate_mock_signals(g)), t),
          signals_data |-> generate_mock_signals(g)]

\* lines 59-69
signal_cache(r, today, g, t) ==
    LET c == MockRedis_get(r, CacheKey(today), t)
    IN signal_cache_write(c.r, today, c.ret, g, t)

\* line 43: the quota is checked and consumed for free users only
quota_applies_to_all(current_user) == TRUE
quota_applies(current_user) == ~current_user.is_paid

GetSignals(email, g) ==
    /\ email \in DOMAIN db
    /\ ~quota_applies(db[email]) \/ MayCall(Slot("signal", email))
    /\ LET today == Today(now)
           current_user == db[email]
           q == IF quota_applies(current_user)
                THEN signal_quota(redis_client, email, today, now)
                ELSE [r |-> redis_client, ret |-> TRUE]
           c == signal_cache(q.r, today, g, now)
       IN IF ~q.ret
          THEN /\ redis_client' = q.r
               /\ last' = Response("signals", email, 403, "Daily limit exceeded", <<>>)
          ELSE /\ redis_client' = c.r
               /\ last' = IF ~current_user.is_paid
                          THEN Response("signals", email, 200, "3/day (upgrade for unlimited)",
                                        Truncate(c.signals_data, FREE_SIGNALS))
                          ELSE Response("signals", email, 200, "null", c.signals_data)
    /\ win' = IF quota_applies(db[email])
              THEN Count(Slot("signal", email), now, last'.code # 403)
              ELSE win
    /\ log' = IF quota_applies(db[email])
              THEN Record("signal", email, last'.code # 403, win'[Slot("signal", email)].start)
              ELSE log
    /\ UNCHANGED <<REDIS_AVAILABLE, reachable, now, db, procs>>

(***************************************************************************)
(* billing.create_checkout_session and billing.get_billing_status.         *)
(* stripe.Customer.create makes a new customer at every call: the n-th     *)
(* customer made for an account has an id of its own.  stripe_result tells *)
(* which of the two Stripe calls raises StripeError.                       *)
(***************************************************************************)
StripeResults == {"ok", "customer_error", "session_error"}
Customer_create(email, n) == IF n = 1 THEN "cus_" \o email ELSE "cus_" \o email \o "_" \o ToString(n)

\* starting a checkout grants the paid tier
CreateCheckout_grants(email, stripe_result) ==
    /\ email \in DOMAIN db
    /\ db' = [db EXCEPT ![email].is_paid = TRUE]
    /\ last' = Response("create-checkout", email, 200, "checkout_url", <<>>)
    /\ UNCHANGED <<log, REDIS_AVAILABLE, reachable, now, redis_client, win, procs>>

CreateCheckout(email, stripe_result) ==
    /\ email \in DOMAIN db
    /\ LET current_user == db[email]
           create == current_user.stripe_customer_id = NULL
       IN IF create /\ stripe_result = "customer_error"
          THEN /\ db' = db
               /\ last' = Response("create-checkout", email, 400, "Stripe error", <<>>)
          ELSE /\ db' = IF create
                        THEN [db EXCEPT ![email].stripe_customer_id = Customer_create(email, 1)]
                        ELSE db
               /\ last' = IF stripe_result = "session_error"
                          THEN Response("create-checkout", email, 400, "Stripe error", <<>>)
                          ELSE Response("create-checkout", email, 200, "checkout_url", <<>>)
    /\ UNCHANGED <<log, REDIS_AVAILABLE, reachable, now, redis_client, win, procs>>

GetBillingStatus(email) ==
    /\ email \in DOMAIN db
    /\ last' = [Response("status", email, 200, db[email].stripe_customer_id, <<>>)
                    EXCEPT !.arg = IF db[email].is_paid THEN "is_paid" ELSE "free"]
    /\ UNCHANGED <<log, REDIS_AVAILABLE, reachable, now, redis_client, db, win, procs>>

(***************************************************************************)
(* billing.stripe_webhook.  An event is what construct_event returns: its  *)
(* id, its type and the customer of its data.object (NULL when the object  *)
(* has none, as session.get("customer") then returns None).  verify is the *)
(* outcome of construct_event for the delivery.                            *)
(***************************************************************************)
HandledTypes == {"checkout.session.completed", "invoice.payment_succeeded", "customer.subscription.deleted"}
Event(id, type, customer) == [id |-> id, type |-> type, customer |-> customer]
Events ==
    {Event("evt_co_a", "checkout.session.completed", "cus_a"),
     Event("evt_co_x", "checkout.session.completed", "cus_x"),
     Event("evt_co_0", "checkout.session.completed", NULL),
     Event("evt_in_a", "invoice.payment_succeeded", "cus_a"),
     Event("evt_de_a", "customer.subscription.deleted", "cus_a"),
     Event("evt_de_0", "customer.subscription.deleted", NULL),
     Event("evt_up_a", "customer.updated", "cus_a")}
VerifyResults == {"ok", "bad_payload", "bad_signature"}

\* lines 83-91: construct_event returns the event, or raises and the handler
\* answers 400
construct_event_fails_open(verify) == TRUE
construct_event(verify) == verify = "ok"

\* db.query(User).filter(User.stripe_customer_id == customer_id): the rows the
\* filter selects; comparing the column with None selects the rows IS NULL
query_by_customer(table, customer_id) ==
    {u \in DOMAIN table : table[u].stripe_customer_id = customer_id}

\* lines 104-135: the value the event type writes to is_paid
PaidAfter_always_paid(event_type) == TRUE
PaidAfter(event_type) == event_type # "customer.subscription.deleted"

\* line 101: mark the event as processed
webhook_mark_nothing(r, event_id, t) == r
webhook_mark(r, event_id, t) == MockRedis_setex(r, EventKey(event_id), EVENT_TTL, 1, t)

\* lines 104-135: the tables the dispatch on the event type may commit
\* (.first() returns one of the rows the filter selects)
webhook_dispatch(table, event) ==
    IF event.type \in HandledTypes /\ query_by_customer(table, event.customer) # {}
    THEN {[table EXCEPT ![user].is_paid = PaidAfter(event.type)] :
            user \in query_by_customer(table, event.customer)}
    ELSE {table}

\* the event ids that have a marker in the store
Marked(r) == {e \in Events : EventKey(e.id) \in DOMAIN r.data}
MayDeliver(event) == event \in Marked(redis_client) \/ Cardinality(Marked(redis_client)) < MaxEvents

WebhookResponse(event, verify, code, detail, event_type) ==
    [Response("webhook", event.id, code, detail, <<>>) EXCEPT !.arg = verify, !.event_type = event_type]

stripe_webhook(event, verify) ==
    /\ IF ~construct_event(verify)
       THEN /\ last' = WebhookResponse(event, verify, 400,
                            IF verify = "bad_payload" THEN "Invalid payload" ELSE "Invalid signature", "")
            /\ UNCHANGED <<redis_client, db>>
       ELSE LET g == MockRedis_get(redis_client, EventKey(event.id), now)
            IN IF g.ret # None
               THEN /\ redis_client' = g.r
                    /\ db' = db
                    /\ last' = WebhookResponse(event, verify, 200, "already_processed", "")
               ELSE /\ redis_client' = webhook_mark(g.r, event.id, now)
                    /\ db' \in webhook_dispatch(db, event)
                    /\ last' = WebhookResponse(event, verify, 200, "success", event.type)
    /\ UNCHANGED <<log, REDIS_AVAILABLE, reachable, now, win, procs>>

\* a delivery of the provider, of one of the MaxEvents event ids it issues
StripeWebhook(event, verify) == MayDeliver(event) /\ stripe_webhook(event, verify)

(***************************************************************************)
(* Passage of time                                                         *)
(***************************************************************************)
Tick(instants) ==
    /\ \E t \in instants : t > now /\ now' = t
    /\ UNCHANGED <<log, REDIS_AVAILABLE, reachable, redis_client, db, last, win, procs>>

(***************************************************************************)
(* Requests served one after another, each handler running to completion   *)
(***************************************************************************)
NoResponse ==
    [seq |-> 0, op |-> "none", id |-> "", arg |-> "", code |-> 0, detail |-> "", event_type |-> "",
     signals |-> <<>>]

\* a request in flight: where its handler stands and the locals it holds
Procs == 1..NProcs
\* (user, is_paid, dirty: the row a webhook delivery has loaded into its
\* database session, the value it assigned, and whether that is uncommitted)
IdleProc ==
    [pc |-> "idle", op |-> "", id |-> "", arg |-> "", today |-> 0, is_paid |-> FALSE, current |-> None,
     user |-> "", dirty |-> FALSE, resp |-> NoResponse]

\* redis_client.py lines 6-11: the client is chosen once, when the module is
\* imported
Import == REDIS_AVAILABLE \in BOOLEAN /\ reachable = REDIS_AVAILABLE
\* the server answered at import and goes on answering
ServerUp == REDIS_AVAILABLE = TRUE /\ reachable = TRUE

Init ==
    /\ now = 0
    /\ redis_client = MockRedis_init
    /\ db = [x \in {} |-> User(FALSE, NULL)]
    /\ last = NoResponse
    /\ win = [s \in Slots |-> [start |-> None, calls |-> 0, allowed |-> 0]]
    /\ procs = [p \in Procs |-> IdleProc]
    /\ ServerUp
    /\ log = NoLog

\* one client address and one account: sign up, then ask for signals
Next ==
    \/ \E client_ip \in IPs, email \in {"a"} : Signup(client_ip, email)
    \/ \E email \in {"a"}, g \in Batches : GetSignals(email, g)
    \/ Tick(Instants)

Spec == Init /\ [][Next]_vars

\* the two throttled authentication endpoints of one client address
NextAuth ==
    \/ \E client_ip \in IPs, email \in Emails : Signup(client_ip, email)
    \/ \E client_ip \in IPs, email \in Emails, password_ok \in BOOLEAN : Login(client_ip, email, password_ok)
    \/ Tick(Instants)

SpecAuth == Init /\ [][NextAuth]_vars

\* billing: the process starts with an empty store on a users table that holds
\* two accounts, each free or paid, with or without its Stripe customer
InitBilling ==
    /\ now = 0
    /\ redis_client = MockRedis_init
    /\ db \in [Emails -> {User(p, c) : p \in BOOLEAN, c \in {NULL, "cus_a", "cus_b"}}]
    /\ \A u \in Emails : db[u].stripe_customer_id \in {NULL, Customer_create(u, 1)}
    /\ last = NoResponse
    /\ win = [s \in Slots |-> [start |-> None, calls |-> 0, allowed |-> 0]]
    /\ procs = [p \in Procs |-> IdleProc]
    /\ ServerUp
    /\ log = NoLog

NextBilling ==
    \/ \E email \in Emails, stripe_result \in StripeResults : CreateCheckout(email, stripe_result)
    \/ \E email \in Emails : GetBillingStatus(email)
    \/ \E event \in Events, verify \in VerifyResults : StripeWebhook(event, verify)
    \/ Tick(DayInstants)

SpecBilling == InitBilling /\ [][NextBilling]_vars

\* the cache entry of a day expires after CACHE_TTL
CacheInstants == {0, CACHE_TTL, CACHE_TTL + 1} \cup {d * SECONDS_PER_DAY : d \in 1..MaxDay}
\* a new day gives every account a new quota key and the cache a new key
Midnights == {d * SECONDS_PER_DAY : d \in 1..MaxDay}
\* signals for both tiers: account a changes tier through the webhook while it
\* asks for signals, day after day
TierEvents == {e \in Events : e.id \in {"evt_co_a", "evt_de_a"}}

InitTiers ==
    /\ now = 0
    /\ redis_client = MockRedis_init
    /\ db \in [{"a"} -> {User(p, Customer_create("a", 1)) : p \in BOOLEAN}]
    /\ last = NoResponse
    /\ win = [s \in Slots |-> [start |-> None, calls |-> 0, allowed |-> 0]]
    /\ procs = [p \in Procs |-> IdleProc]
    /\ ServerUp
    /\ log = NoLog

NextTiers ==
    \/ \E email \in {"a"}, g \in Batches : GetSignals(email, g)
    \/ \E event \in TierEvents : StripeWebhook(event, "ok")
    \/ Tick(Midnights)

SpecTiers == InitTiers /\ [][NextTiers]_vars

\* every operation on the users table: accounts sign up and log in, ask for
\* signals and for their billing status, start a checkout, and the provider
\* delivers events
LedgerEvents == {e \in Events : e.id \in {"evt_co_a", "evt_de_a", "evt_co_0"}}

NextLedger ==
    \/ \E client_ip \in IPs, email \in Emails :
            Calls(Slot("signup", client_ip), now) < MaxAuthCalls /\ Signup(client_ip, email)
    \/ \E client_ip \in IPs, password_ok \in BOOLEAN :
            Calls(Slot("login", client_ip), now) < MaxAuthCalls /\ Login(client_ip, "a", password_ok)
    \/ \E email \in {"a"} : GetSignals(email, 1)
    \/ \E email \in Emails, stripe_result \in StripeResults : CreateCheckout(email, stripe_result)
    \/ \E email \in Emails : GetBillingStatus(email)
    \/ \E event \in LedgerEvents : StripeWebhook(event, "ok")

SpecLedger == Init /\ [][NextLedger]_vars

\* the Redis server stops or starts answering
Outage ==
    /\ reachable' = ~reachable
    /\ UNCHANGED <<log, REDIS_AVAILABLE, now, redis_client, db, last, win, procs>>

\* a command sent to the client of a server that does not answer raises
\* redis.ConnectionError; no handler catches it and the request is answered 500
Unreachable == REDIS_AVAILABLE /\ ~reachable
ServerError(op, id, arg) ==
    /\ last' = [Response(op, id, 500, "Internal Server Error", <<>>) EXCEPT !.arg = arg]
    /\ UNCHANGED <<log, REDIS_AVAILABLE, reachable, now, redis_client, db, win, procs>>

\* the handlers that use the store, while the server comes and goes: signup
\* and get_signals send their first command at once, stripe_webhook after the
\* verification of the delivery
NextOutage ==
    \/ \E client_ip \in IPs, email \in {"a"} :
            IF Unreachable THEN ServerError("signup", client_ip, "") ELSE Signup(client_ip, email)
    \/ \E email \in {"a"}, g \in Batches :
            IF Unreachable
            THEN email \in DOMAIN db /\ ServerError("signals", email, "")
            ELSE GetSignals(email, g)
    \/ \E event \in TierEvents, verify \in VerifyResults :
            IF Unreachable /\ construct_event(verify)
            THEN MayDeliver(event) /\ ServerError("webhook", event.id, verify)
            ELSE StripeWebhook(event, verify)
    \/ Outage

\* the process starts with either client
InitOutage ==
    /\ now = 0
    /\ redis_client = MockRedis_init
    /\ db \in [{"a"} -> {User(p, Customer_create("a", 1)) : p \in BOOLEAN}]
    /\ last = NoResponse
    /\ win = [s \in Slots |-> [start |-> None, calls |-> 0, allowed |-> 0]]
    /\ procs = [p \in Procs |-> IdleProc]
    /\ Import
    /\ log = NoLog

SpecOutage == InitOutage /\ [][NextOutage]_vars

(***************************************************************************)
(* Requests in flight at once.  The service runs as several instances on   *)
(* one shared store, so the store commands and the commits of different    *)
(* requests interleave: every action below is one command of a handler,    *)
(* together with the local computation that follows it.                    *)
(***************************************************************************)
Reply(op, id, code, detail, signals) == [Response(op, id, code, detail, signals) EXCEPT !.seq = 0]
Idle(p) == procs[p].pc = "idle"
Finish(p, resp) == [procs EXCEPT ![p] = [IdleProc EXCEPT !.resp = resp]]

\* signup, line 48 / check_rate_limit line 30: current = redis_client.get(key)
SignupGet(p, client_ip, email) ==
    /\ Idle(p)
    /\ MayCall(Slot("signup", client_ip))
    /\ LET g == MockRedis_get(redis_client, RateKey("signup", client_ip), now)
       IN /\ redis_client' = g.r
          /\ procs' = [procs EXCEPT ![p] = [IdleProc EXCEPT !.pc = "signup", !.op = "signup",
                            !.id = client_ip, !.arg = email, !.current = g.ret, !.resp = procs[p].resp]]
    /\ UNCHANGED <<log, REDIS_AVAILABLE, reachable, now, db, last, win>>

\* check_rate_limit lines 31-37, then signup lines 49-78
SignupFinish(p) ==
    /\ procs[p].pc = "signup"
    /\ LET client_ip == procs[p].id
           email == procs[p].arg
           rl == check_rate_limit_write(redis_client, RateKey("signup", client_ip), AUTH_LIMIT,
                                        AUTH_WINDOW, procs[p].current, now)
       IN /\ redis_client' = rl.r
          /\ win' = Count(Slot("signup", client_ip), now, rl.ret)
          /\ IF ~rl.ret
             THEN /\ procs' = Finish(p, Reply("signup", client_ip, 429, "Too many signup attempts", <<>>))
                  /\ db' = db
             ELSE IF email \in DOMAIN db
                  THEN /\ procs' = Finish(p, Reply("signup", client_ip, 400, "Email already registered", <<>>))
                       /\ db' = db
                  ELSE /\ procs' = Finish(p, Reply("signup", client_ip, 201, "bearer", <<>>))
                       /\ db' = Put(db, email, User(FALSE, NULL))
    /\ UNCHANGED <<log, REDIS_AVAILABLE, reachable, now, last>>

\* get_signals lines 39-45: today, current_user.is_paid, count = get(rate_key)
SignalsGet(p, email) ==
    /\ Idle(p)
    /\ email \in DOMAIN db
    /\ ~quota_applies(db[email]) \/ MayCall(Slot("signal", email))
    /\ LET today == Today(now)
           g == MockRedis_get(redis_client, SignalKey(email, today), now)
       IN IF ~quota_applies(db[email])
          THEN /\ redis_client' = redis_client
               /\ procs' = [procs EXCEPT ![p] = [IdleProc EXCEPT !.pc = "cache", !.op = "signals",
                                !.id = email, !.today = today, !.is_paid = db[email].is_paid,
                                !.resp = procs[p].resp]]
          ELSE /\ redis_client' = g.r
               /\ procs' = [procs EXCEPT ![p] = [IdleProc EXCEPT !.pc = "quota", !.op = "signals",
                                !.id = email, !.today = today, !.is_paid = db[email].is_paid,
                                !.current = g.ret, !.resp = procs[p].resp]]
    /\ UNCHANGED <<log, REDIS_AVAILABLE, reachable, now, db, last, win>>

\* get_signals lines 47-57: deny, or setex / incr
SignalsQuota(p) ==
    /\ procs[p].pc = "quota"
    /\ LET email == procs[p].id
           q == signal_quota_write(redis_client, email, procs[p].today, procs[p].current, now)
       IN /\ redis_client' = q.r
          /\ win' = Count(Slot("signal", email), now, q.ret)
          /\ procs' = IF q.ret
                      THEN [procs EXCEPT ![p].pc = "cache", ![p].current = None]
                      ELSE Finish(p, Reply("signals", email, 403, "Daily limit exceeded", <<>>))
    /\ UNCHANGED <<log, REDIS_AVAILABLE, reachable, now, db, last>>

\* the reply of get_signals, lines 71-82
SignalsReply(p, signals_data) ==
    IF ~procs[p].is_paid
    THEN Reply("signals", procs[p].id, 200, "3/day (upgrade for unlimited)", Truncate(signals_data, FREE_SIGNALS))
    ELSE Reply("signals", procs[p].id, 200, "null", signals_data)

\* get_signals lines 60-64: cached_signals = get(cache_key); a hit is served
SignalsCacheGet(p) ==
    /\ procs[p].pc = "cache"
    /\ LET c == MockRedis_get(redis_client, CacheKey(procs[p].today), now)
       IN /\ redis_client' = c.r
          /\ procs' = IF c.ret # None
                      THEN Finish(p, SignalsReply(p, signal_cache_write(c.r, procs[p].today, c.ret, 0, now).signals_data))
                      ELSE [procs EXCEPT ![p].pc = "fill"]
    /\ UNCHANGED <<log, REDIS_AVAILABLE, reachable, now, db, last, win>>

\* get_signals lines 66-69: generate the batch and cache it
SignalsCacheFill(p, g) ==
    /\ procs[p].pc = "fill"
    /\ LET c == signal_cache_write(redis_client, procs[p].today, None, g, now)
       IN /\ redis_client' = c.r
          /\ procs' = Finish(p, SignalsReply(p, c.signals_data))
    /\ UNCHANGED <<log, REDIS_AVAILABLE, reachable, now, db, last, win>>

\* one registered free account; requests in flight at once
InitQuota ==
    /\ now = 0
    /\ redis_client = MockRedis_init
    /\ db = [x \in {"a"} |-> User(FALSE, NULL)]
    /\ last = NoResponse
    /\ win = [s \in Slots |-> [start |-> None, calls |-> 0, allowed |-> 0]]
    /\ procs = [p \in Procs |-> IdleProc]
    /\ ServerUp
    /\ log = NoLog

\* signal requests of the account in flight at once
NextQuota ==
    \/ \E p \in Procs, email \in {"a"} : SignalsGet(p, email)
    \/ \E p \in Procs : SignalsQuota(p)
    \/ \E p \in Procs : SignalsCacheGet(p)
    \/ \E p \in Procs, g \in Batches : SignalsCacheFill(p, g)
    \/ Tick(Offsets)

SpecQuota == InitQuota /\ [][NextQuota]_vars

\* signal requests of one account, free or paid, in flight at once while the
\* cache entry of the day expires and the day changes
NextCache ==
    \/ \E p \in Procs, email \in {"a"} : SignalsGet(p, email)
    \/ \E p \in Procs : SignalsQuota(p)
    \/ \E p \in Procs : SignalsCacheGet(p)
    \/ \E p \in Procs, g \in Batches : SignalsCacheFill(p, g)
    \/ Tick(CacheInstants)

SpecCache == InitTiers /\ [][NextCache]_vars

\* signup requests of one client address in flight at once
NextThrottle ==
    \/ \E p \in Procs, client_ip \in IPs, email \in {"b"} : SignupGet(p, client_ip, email)
    \/ \E p \in Procs : SignupFinish(p)
    \/ Tick(Offsets)

SpecThrottle == InitQuota /\ [][NextThrottle]_vars

\* stripe_webhook lines 83-99: construct_event, then the idempotency check
webhook_get(p, event, verify) ==
    /\ Idle(p)
    /\ IF ~construct_event(verify)
       THEN /\ procs' = Finish(p, [WebhookResponse(event, verify, 400,
                            IF verify = "bad_payload" THEN "Invalid payload" ELSE "Invalid signature", "")
                                        EXCEPT !.seq = 0])
            /\ redis_client' = redis_client
       ELSE LET g == MockRedis_get(redis_client, EventKey(event.id), now)
            IN /\ redis_client' = g.r
               /\ procs' = IF g.ret # None
                           THEN Finish(p, [WebhookResponse(event, verify, 200, "already_processed", "")
                                                EXCEPT !.seq = 0])
                           ELSE [procs EXCEPT ![p] = [IdleProc EXCEPT !.pc = "mark", !.op = "webhook",
                                    !.id = event.id, !.arg = verify, !.resp = procs[p].resp]]
    /\ UNCHANGED <<log, REDIS_AVAILABLE, reachable, now, db, last, win>>

\* a delivery of the provider, of one of the MaxEvents event ids it issues
WebhookGet(p, event, verify) == MayDeliver(event) /\ webhook_get(p, event, verify)

\* the delivery goes on to the dispatch without writing its marker
WebhookMark_skipped(p) ==
    /\ procs[p].pc = "mark"
    /\ procs' = [procs EXCEPT ![p].pc = "dispatch"]
    /\ UNCHANGED <<log, REDIS_AVAILABLE, reachable, now, redis_client, db, last, win>>

\* stripe_webhook lines 101-102: mark the event as processed
WebhookMark(p) ==
    /\ procs[p].pc = "mark"
    /\ redis_client' = webhook_mark(redis_client, procs[p].id, now)
    /\ procs' = [procs EXCEPT ![p].pc = "dispatch"]
    /\ UNCHANGED <<log, REDIS_AVAILABLE, reachable, now, db, last, win>>

\* db.commit(): the assignment held by the session is written to the table
db_commit_nothing(table, user, is_paid) == table
\* a commit grants the paid tier and never takes it back
db_commit_keeps_paid(table, user, is_paid) == [table EXCEPT ![user].is_paid = @ \/ is_paid]
db_commit(table, user, is_paid) == [table EXCEPT ![user].is_paid = is_paid]

\* an event that selects no account is answered with an error
WebhookDispatch_fails_unmatched(p) ==
    /\ procs[p].pc = "dispatch"
    /\ LET event == CHOOSE e \in Events : e.id = procs[p].id
           found == IF event.type \in HandledTypes THEN query_by_customer(db, event.customer) ELSE {}
       IN IF found = {}
          THEN procs' = Finish(p, [WebhookResponse(event, procs[p].arg, 404, "No matching account", "")
                                        EXCEPT !.seq = 0])
          ELSE \E user \in found :
                  procs' = [procs EXCEPT ![p].pc = "commit", ![p].user = user,
                                         ![p].is_paid = PaidAfter(event.type), ![p].dirty = TRUE]
    /\ UNCHANGED <<log, REDIS_AVAILABLE, reachable, now, redis_client, db, last, win>>

\* stripe_webhook lines 104-114: dispatch on the event type, query the user
\* and assign user.is_paid in the session
WebhookDispatch(p) ==
    /\ procs[p].pc = "dispatch"
    /\ LET event == CHOOSE e \in Events : e.id = procs[p].id
           found == IF event.type \in HandledTypes THEN query_by_customer(db, event.customer) ELSE {}
       IN IF found = {}
          THEN procs' = [procs EXCEPT ![p].pc = "return"]
          ELSE \E user \in found :
                  procs' = [procs EXCEPT ![p].pc = "commit", ![p].user = user,
                                         ![p].is_paid = PaidAfter(event.type), ![p].dirty = TRUE]
    /\ UNCHANGED <<log, REDIS_AVAILABLE, reachable, now, redis_client, db, last, win>>

\* the session is rolled back instead of committed
WebhookCommit_discards(p) ==
    /\ procs[p].pc = "commit"
    /\ procs' = [procs EXCEPT ![p].pc = "return", ![p].dirty = FALSE]
    /\ UNCHANGED <<log, REDIS_AVAILABLE, reachable, now, redis_client, db, last, win>>

\* line 115 (125, 135): db.commit()
WebhookCommit(p) ==
    /\ procs[p].pc = "commit"
    /\ db' = db_commit(db, procs[p].user, procs[p].is_paid)
    /\ procs' = [procs EXCEPT ![p].pc = "return", ![p].dirty = FALSE]
    /\ log' = Record("commit", procs[p].id, procs[p].is_paid, None)
    /\ UNCHANGED <<REDIS_AVAILABLE, reachable, now, redis_client, last, win>>

\* line 137: return {"status": "success", "event_type": event_type}
WebhookReturn(p) ==
    /\ procs[p].pc = "return"
    /\ LET event == CHOOSE e \in Events : e.id = procs[p].id
       IN procs' = Finish(p, [WebhookResponse(event, procs[p].arg, 200, "success", event.type)
                                    EXCEPT !.seq = 0])
    /\ UNCHANGED <<log, REDIS_AVAILABLE, reachable, now, redis_client, db, last, win>>

\* deliveries of the provider in flight at once, of the events of customer cus_a
NextDeliveries ==
    \/ \E p \in Procs, event \in {e \in Events : e.customer = "cus_a"}, verify \in VerifyResults :
            WebhookGet(p, event, verify)
    \/ \E p \in Procs : WebhookMark(p)
    \/ \E p \in Procs : WebhookDispatch(p)
    \/ \E p \in Procs : WebhookCommit(p)
    \/ \E p \in Procs : WebhookReturn(p)

SpecDeliveries == InitBilling /\ [][NextDeliveries]_vars

\* a delivery that has started takes each of its steps: the worker that serves
\* it runs the handler to its end
FairDeliveries ==
    \A p \in Procs : /\ WF_vars(WebhookMark(p)) /\ WF_vars(WebhookDispatch(p))
                      /\ WF_vars(WebhookCommit(p)) /\ WF_vars(WebhookReturn(p))

SpecFairDeliveries == InitTiers /\ [][NextDeliveries]_vars /\ FairDeliveries

\* the failure handler removes the marker of the event
WebhookCrash_unmarks(p) ==
    /\ procs[p].pc \in {"dispatch", "commit"}
    /\ redis_client' = MockRedis_delete(redis_client, EventKey(procs[p].id))
    /\ LET event == CHOOSE e \in Events : e.id = procs[p].id
       IN procs' = Finish(p, [WebhookResponse(event, procs[p].arg, 500, "Internal Server Error", "")
                                    EXCEPT !.seq = 0])
    /\ UNCHANGED <<log, REDIS_AVAILABLE, reachable, now, db, last, win>>

\* the handler stops after line 102: the query or db.commit() raises (lines
\* 112-115, 122-125, 132-135), or the worker dies.  Nothing catches the
\* exception: the session is closed with the assignment uncommitted, the
\* request is answered 500, and no command is sent to the store
WebhookCrash(p) ==
    /\ procs[p].pc \in {"dispatch", "commit"}
    /\ LET event == CHOOSE e \in Events : e.id = procs[p].id
       IN procs' = Finish(p, [WebhookResponse(event, procs[p].arg, 500, "Internal Server Error", "")
                                    EXCEPT !.seq = 0])
    /\ UNCHANGED <<log, REDIS_AVAILABLE, reachable, now, redis_client, db, last, win>>

\* deliveries of the events of account a, some of which stop half-way; the
\* provider delivers again, also after the marker has expired
NextCrash ==
    \/ \E p \in Procs, event \in TierEvents : WebhookGet(p, event, "ok")
    \/ \E p \in Procs : WebhookMark(p)
    \/ \E p \in Procs : WebhookDispatch(p)
    \/ \E p \in Procs : WebhookCommit(p)
    \/ \E p \in Procs : WebhookReturn(p)
    \/ \E p \in Procs : WebhookCrash(p)
    \/ Tick(DayInstants)

SpecCrash == InitTiers /\ [][NextCrash]_vars

\* the provider delivers the checkout of account a again and again, the
\* deliveries in flight at once, also after the marker has expired
NextRedeliveries ==
    \/ \E p \in Procs, event \in {e \in TierEvents : e.id = "evt_co_a"} : WebhookGet(p, event, "ok")
    \/ \E p \in Procs : WebhookMark(p)
    \/ \E p \in Procs : WebhookDispatch(p)
    \/ \E p \in Procs : WebhookCommit(p)
    \/ \E p \in Procs : WebhookReturn(p)
    \/ Tick(DayInstants)

SpecRedeliveries == InitTiers /\ [][NextRedeliveries]_vars

\* the two events of account a, a checkout and a cancellation, delivered in
\* either order and overlapping; the commits are recorded in the order they
\* happen.  The provider does not send an event while an earlier delivery of
\* the same event is unanswered.
InitOrder ==
    /\ now = 0
    /\ redis_client = MockRedis_init
    /\ db \in [{"a"} -> {User(p, Customer_create("a", 1)) : p \in BOOLEAN}]
    /\ last = NoResponse
    /\ win = [s \in Slots |-> [start |-> None, calls |-> 0, allowed |-> 0]]
    /\ procs = [p \in Procs |-> IdleProc]
    /\ ServerUp
    /\ log = EmptyLog

Unanswered(event) == \E q \in Procs : procs[q].id = event.id /\ procs[q].pc # "idle"

NextOrder ==
    \/ \E p \in Procs, event \in TierEvents : ~Unanswered(event) /\ webhook_get(p, event, "ok")
    \/ \E p \in Procs : WebhookMark(p)
    \/ \E p \in Procs : WebhookDispatch(p)
    \/ \E p \in Procs : WebhookCommit(p)
    \/ \E p \in Procs : WebhookReturn(p)
    \/ Tick(Offsets)

SpecOrder == InitOrder /\ [][NextOrder]_vars

\* one client address logging in, at most MaxAuthCalls times, and then
\* signing up, across the boundaries of the wall-clock minutes 0 and 1; the
\* answers of the throttle are recorded
BucketInstants == {30, 60, 91}

InitBuckets ==
    /\ now = 0
    /\ redis_client = MockRedis_init
    /\ db = [x \in {} |-> User(FALSE, NULL)]
    /\ last = NoResponse
    /\ win = [s \in Slots |-> [start |-> None, calls |-> 0, allowed |-> 0]]
    /\ procs = [p \in Procs |-> IdleProc]
    /\ ServerUp
    /\ log = EmptyLog

NextBuckets ==
    \/ \E client_ip \in IPs : Signup(client_ip, "a")
    \/ \E client_ip \in IPs :
            /\ win[Slot("signup", client_ip)].start = None
            /\ Len(log.entries) < MaxAuthCalls
            /\ Login(client_ip, "a", TRUE)
    \/ Tick(BucketInstants)

SpecBuckets == InitBuckets /\ [][NextBuckets]_vars

\* bursts against one limiter: a run is either the signups of one client
\* address in the first minutes, around the expiry of its counter, or the
\* signal requests of the free account a around midnight; the answers of the
\* limiter are recorded
BurstInstants == {60, 91} \cup Midnights

InitBurst ==
    /\ now = 0
    /\ redis_client = MockRedis_init
    /\ db = [u \in {"a"} |-> User(FALSE, NULL)]
    /\ last = NoResponse
    /\ win = [s \in Slots |-> [start |-> None, calls |-> 0, allowed |-> 0]]
    /\ procs = [p \in Procs |-> IdleProc]
    /\ ServerUp
    /\ log = EmptyLog

NextBurst ==
    \/ \E client_ip \in IPs :
            /\ win[Slot("signal", "a")].start = None
            /\ now < SECONDS_PER_DAY
            /\ Signup(client_ip, "b")
    \/ \E client_ip \in IPs : win[Slot("signup", client_ip)].start = None /\ GetSignals("a", 1)
    \/ Tick(BurstInstants)

SpecBurst == InitBurst /\ [][NextBurst]_vars

\* create_checkout_session up to line 24: current_user as the request loaded it
CheckoutGet(p, email) ==
    /\ Idle(p)
    /\ email \in DOMAIN db
    /\ procs' = [procs EXCEPT ![p] = [IdleProc EXCEPT !.pc = "customer", !.op = "create-checkout",
                        !.id = email, !.arg = db[email].stripe_customer_id, !.resp = procs[p].resp]]
    /\ UNCHANGED <<log, REDIS_AVAILABLE, reachable, now, redis_client, db, last, win>>

\* lines 24-32: stripe.Customer.create and the commit of its id, for a request
\* that found no customer id
CheckoutCustomer(p, stripe_result) ==
    /\ procs[p].pc = "customer"
    /\ LET email == procs[p].id
           create == procs[p].arg = NULL
       IN IF create /\ stripe_result = "customer_error"
          THEN /\ db' = db
               /\ procs' = Finish(p, Reply("create-checkout", email, 400, "Stripe error", <<>>))
          ELSE /\ db' = IF create
                        THEN [db EXCEPT ![email].stripe_customer_id = Customer_create(email, p)]
                        ELSE db
               /\ procs' = [procs EXCEPT ![p].pc = "session"]
    /\ UNCHANGED <<log, REDIS_AVAILABLE, reachable, now, redis_client, last, win>>

\* lines 34-65: stripe.checkout.Session.create and the reply
CheckoutSession(p, stripe_result) ==
    /\ procs[p].pc = "session"
    /\ stripe_result # "customer_error"
    /\ procs' = Finish(p, IF stripe_result = "session_error"
                          THEN Reply("create-checkout", procs[p].id, 400, "Stripe error", <<>>)
                          ELSE Reply("create-checkout", procs[p].id, 200, "checkout_url", <<>>))
    /\ UNCHANGED <<log, REDIS_AVAILABLE, reachable, now, redis_client, db, last, win>>

\* checkout initiations in flight at once
NextCheckouts ==
    \/ \E p \in Procs, email \in Emails : CheckoutGet(p, email)
    \/ \E p \in Procs, stripe_result \in StripeResults : CheckoutCustomer(p, stripe_result)
    \/ \E p \in Procs, stripe_result \in StripeResults : CheckoutSession(p, stripe_result)

SpecCheckouts == InitBilling /\ [][NextCheckouts]_vars

\* account a asks for signals while the provider delivers its checkout and
\* its cancellation, each as often as it likes, day after day
NextUpgrade ==
    \/ GetSignals("a", 1)
    \/ \E event \in TierEvents : stripe_webhook(event, "ok")
    \/ Tick(Midnights)

SpecUpgrade == InitTiers /\ [][NextUpgrade]_vars

\* every handler that uses the store, for one client address and two free
\* accounts, day after day; account a asks for signals beyond its quota
InitKeys ==
    /\ now = 0
    /\ redis_client = MockRedis_init
    /\ db = [u \in Emails |-> User(FALSE, Customer_create(u, 1))]
    /\ last = NoResponse
    /\ win = [s \in Slots |-> [start |-> None, calls |-> 0, allowed |-> 0]]
    /\ procs = [p \in Procs |-> IdleProc]
    /\ ServerUp
    /\ log = NoLog

NextKeys ==
    \/ \E client_ip \in IPs :
            Calls(Slot("signup", client_ip), now) < MaxAuthCalls /\ Signup(client_ip, "a")
    \/ \E client_ip \in IPs :
            Calls(Slot("login", client_ip), now) < MaxAuthCalls /\ Login(client_ip, "a", TRUE)
    \/ GetSignals("a", 1)
    \/ Calls(Slot("signal", "b"), now) < MaxAuthCalls /\ GetSignals("b", 1)
    \/ \E event \in TierEvents : StripeWebhook(event, "ok")
    \/ Tick(Midnights)

SpecKeys == InitKeys /\ [][NextKeys]_vars

(***************************************************************************)
(* The in-process store driven directly: any sequence of its commands on   *)
(* two keys, with the TTLs the handlers use, while time passes.  last      *)
(* records the command (op), the namespace of its key (id) and what it     *)
(* returned (code; 0 for the commands that return nothing).                *)
(***************************************************************************)
StoreKeys == {RateKey("signup", "ip1"), SignalKey("a", 0)}
StoreTTLs == {AUTH_WINDOW, SIGNAL_TTL}
StoreReturn(op, key, ret) == Response(op, key.ns, ret, "", <<>>)

StoreCommand(r, resp) ==
    /\ redis_client' = r
    /\ last' = resp
    /\ UNCHANGED <<log, REDIS_AVAILABLE, reachable, now, db, win, procs>>

StoreGet(key) ==
    LET g == MockRedis_get(redis_client, key, now)
    IN StoreCommand(g.r, StoreReturn("get", key, g.ret))

StoreSet(key, value) ==
    StoreCommand(MockRedis_set(redis_client, key, value), StoreReturn("set", key, 0))

StoreSetex(key, ex, value) ==
    StoreCommand(MockRedis_setex(redis_client, key, ex, value, now), StoreReturn("setex", key, 0))

StoreIncr(key) ==
    LET i == MockRedis_incr(redis_client, key, now)
    IN /\ i.ret <= MaxValue
       /\ StoreCommand(i.r, StoreReturn("incr", key, i.ret))

StoreExpire(key, ex) ==
    StoreCommand(MockRedis_expire(redis_client, key, ex, now), StoreReturn("expire", key, 0))

StoreDelete(key) ==
    StoreCommand(MockRedis_delete(redis_client, key), StoreReturn("delete", key, 0))

NextStore ==
    \/ \E key \in StoreKeys : StoreGet(key)
    \/ \E key \in StoreKeys : StoreSet(key, 1)
    \/ \E key \in StoreKeys, ex \in StoreTTLs : StoreSetex(key, ex, 1)
    \/ \E key \in StoreKeys : StoreIncr(key)
    \/ \E key \in StoreKeys, ex \in StoreTTLs : StoreExpire(key, ex)
    \/ \E key \in StoreKeys : StoreDelete(key)
    \/ Tick(Instants)

SpecStore == Init /\ [][NextStore]_vars

(***************************************************************************)
(* Properties of the rate limiter, requests served one after another       *)
(***************************************************************************)
\* the slot a response belongs to, and the key of a slot at time t
SlotOf(resp) == Slot(IF resp.op = "signals" THEN "signal" ELSE resp.op, resp.id)
KeyOf(slot, t) ==
    IF slot.purpose = "signal" THEN SignalKey(slot.id, Today(t)) ELSE RateKey(slot.purpose, slot.id)
Throttled(resp) == resp.op \in {"signup", "login"} \/ (resp.op = "signals" /\ resp.detail # "null")
Denied(resp) == IF resp.op = "signals" THEN resp.code = 403 ELSE resp.code = 429
\* the counter of a key as a caller of the store sees it at time t
Counter(r, key, t) == IF key \in DOMAIN r.data /\ ~MockRedis_expired(r, key, t) THEN r.data[key] ELSE None
Expiry(r, key) == IF key \in DOMAIN r.expiry THEN r.expiry[key] ELSE None
\* this step is a throttled call of the slot
CallOf(slot) == win'[slot] # win[slot]

\* C1: of the calls made for one (purpose, identity) inside one window, one
\* after another, the first `limit` are allowed and every further one is
\* denied (429 for signup with limit 10, 403 for the signal quota with limit 3).
C1_FirstLimitCallsAllowed ==
    Throttled(last) => (Denied(last) <=> win[SlotOf(last)].calls > Limit(SlotOf(last)))

C1_Witness ==
    /\ last.op = "signals" /\ last.code = 403
    /\ win[Slot("signal", "a")].calls = SIGNAL_LIMIT + 1
    /\ \E ip \in IPs : /\ InWindow(Slot("signup", ip), now)
                        /\ win[Slot("signup", ip)].calls = AUTH_LIMIT + 1
                        /\ Counter(redis_client, RateKey("signup", ip), now) = AUTH_LIMIT

\* C2: a denied call leaves the value and the expiry of its counter as they
\* were, so once limit or more calls were made in a window the counter equals
\* limit (after limit + 2 calls it is limit, not limit + 2).
C2_DenialLeavesCounter ==
    /\ [](\A s \in Slots :
            (InWindow(s, now) /\ win[s].calls >= Limit(s))
                => Counter(redis_client, KeyOf(s, now), now) = Limit(s))
    /\ [][\A s \in Slots :
            (CallOf(s) /\ Denied(last'))
                => /\ Counter(redis_client, KeyOf(s, now), now) >= Limit(s)
                   /\ redis_client'.data[KeyOf(s, now)] = redis_client.data[KeyOf(s, now)]
                   /\ Expiry(redis_client', KeyOf(s, now)) = Expiry(redis_client, KeyOf(s, now))]_vars

C2_Witness ==
    \E s \in Slots :
        /\ InWindow(s, now) /\ win[s].calls = Limit(s) + 2
        /\ Denied(last) /\ SlotOf(last) = s
        /\ Counter(redis_client, KeyOf(s, now), now) = Limit(s)

\* C10: the first signal request of a free account on a calendar day is
\* allowed whatever its counter of an earlier day was, and a request is denied
\* only after SIGNAL_LIMIT requests of the same day.
C10_DailyReset ==
    [][\A u \in Emails :
        (CallOf(Slot("signal", u)) /\ Calls(Slot("signal", u), now) < SIGNAL_LIMIT)
            => last'.code = 200 /\ Len(last'.signals) = FREE_SIGNALS]_vars

C10_Witness ==
    /\ Today(now) = 1
    /\ last.op = "signals" /\ last.code = 200
    /\ win[Slot("signal", "a")] = [start |-> now, calls |-> 1, allowed |-> 1]
    /\ SignalKey("a", 0) \in DOMAIN redis_client.data
    /\ redis_client.data[SignalKey("a", 0)] = SIGNAL_LIMIT
    /\ redis_client.data[SignalKey("a", 1)] = 1


(***************************************************************************)
(* Properties of the webhook processor, deliveries served one after        *)
(* another                                                                 *)
(***************************************************************************)
EventOf(event_id) == CHOOSE e \in Events : e.id = event_id
\* this step serves a webhook delivery
Delivery == last'.seq # last.seq /\ last'.op = "webhook"
\* the marker of the event is present and not expired
MarkerAlive(r, event_id, t) == Counter(r, EventKey(event_id), t) # None
\* first delivery of a verified event: no marker of it is alive
FirstVerified == Delivery /\ last'.arg = "ok" /\ ~MarkerAlive(redis_client, last'.id, now)
\* the accounts whose customer reference is the one the event names
AccountsOf(event) ==
    {u \in DOMAIN db : db[u].stripe_customer_id # NULL /\ db[u].stripe_customer_id = event.customer}

\* C3: a verified delivery that starts while the marker of its event id is
\* alive ends as already_processed and changes no account; a verified delivery
\* that finds no live marker ends as success and leaves the marker alive, so
\* the same id delivered twice in a row gives success, then already_processed.
C3_WebhookIdempotent ==
    [][/\ (Delivery /\ last'.arg = "ok" /\ MarkerAlive(redis_client, last'.id, now))
            => (last'.code = 200 /\ last'.detail = "already_processed" /\ db' = db)
       /\ FirstVerified
            => (last'.code = 200 /\ last'.detail = "success"
                /\ MarkerAlive(redis_client', last'.id, now))]_vars

C3_Witness ==
    /\ last.op = "webhook" /\ last.id = "evt_co_a" /\ last.detail = "already_processed"
    /\ MarkerAlive(redis_client, "evt_co_a", now)
    /\ db["a"] = User(TRUE, "cus_a")

\* C5: a delivery that fails verification is answered 400, writes no marker
\* and changes no account; a verified delivery of the same event id that
\* follows it is processed and its side effect applied.
C5_RejectedLeavesNoTrace ==
    [][/\ (Delivery /\ last'.arg # "ok")
            => (last'.code = 400 /\ redis_client' = redis_client /\ db' = db)
       /\ (FirstVerified /\ last.op = "webhook" /\ last.code = 400 /\ last.id = last'.id)
            => (/\ last'.detail = "success"
                /\ \A u \in AccountsOf(EventOf(last'.id)) :
                      EventOf(last'.id).type \in HandledTypes
                        => db'[u].is_paid = (EventOf(last'.id).type # "customer.subscription.deleted"))]_vars

C5_Witness ==
    /\ last.op = "webhook" /\ last.code = 400 /\ last.arg = "bad_signature" /\ last.id = "evt_co_a"
    /\ Marked(redis_client) = {}
    /\ db["a"] = User(FALSE, "cus_a")

\* C6: a first verified event of a handled kind whose customer reference is
\* the one of an account sets that account's is_paid by the kind alone
\* (checkout completed and payment succeeded: true, subscription deleted:
\* false) and leaves every other account as it was.
C6_EntitlementByKind ==
    [][(FirstVerified /\ EventOf(last'.id).type \in HandledTypes /\ AccountsOf(EventOf(last'.id)) # {})
        => \A u \in DOMAIN db :
             IF u \in AccountsOf(EventOf(last'.id))
             THEN db'[u] = User(EventOf(last'.id).type \in {"checkout.session.completed",
                                                            "invoice.payment_succeeded"},
                                db[u].stripe_customer_id)
             ELSE db'[u] = db[u]]_vars

C6_Witness ==
    /\ last.op = "webhook" /\ last.id = "evt_de_a" /\ last.detail = "success"
    /\ db["a"] = User(FALSE, "cus_a")
    /\ db["b"].is_paid

\* C7: a first verified event of an unhandled kind, or of a handled kind whose
\* customer reference is that of no account, changes no account, is answered
\* success with its event type, and leaves its marker written.
C7_UnmatchedIsNoOp ==
    [][(FirstVerified /\ (EventOf(last'.id).type \notin HandledTypes \/ AccountsOf(EventOf(last'.id)) = {}))
        => (/\ db' = db
            /\ last'.code = 200 /\ last'.detail = "success"
            /\ last'.event_type = EventOf(last'.id).type
            /\ MarkerAlive(redis_client', last'.id, now))]_vars

\* what does hold: the same for events that name a customer
C7_NamedCustomerIsNoOp ==
    [][(FirstVerified /\ EventOf(last'.id).customer # NULL
          /\ (EventOf(last'.id).type \notin HandledTypes \/ AccountsOf(EventOf(last'.id)) = {}))
        => (/\ db' = db
            /\ last'.code = 200 /\ last'.detail = "success"
            /\ last'.event_type = EventOf(last'.id).type
            /\ MarkerAlive(redis_client', last'.id, now))]_vars

(***************************************************************************)
(* Properties under requests in flight at once                             *)
(***************************************************************************)
\* C4: of the verified deliveries in flight of one checkout.session.completed
\* event id naming the customer of an account, exactly one ends as processed
\* (success) and the others as already_processed: no two of them both apply
\* the side effect.
C4_AppliedExactlyOnce ==
    \A p, q \in Procs :
        (/\ p # q
         /\ procs[p].resp.op = "webhook" /\ procs[q].resp.op = "webhook"
         /\ procs[p].resp.id = procs[q].resp.id
         /\ EventOf(procs[p].resp.id).type = "checkout.session.completed"
         /\ AccountsOf(EventOf(procs[p].resp.id)) # {}
         /\ procs[p].resp.detail = "success")
            => procs[q].resp.detail # "success"

\* C8: the calls admitted for one (purpose, identity) within one window never
\* number more than the limit.
C8_NeverOverAdmitted ==
    \A s \in Slots : win[s].allowed <= Limit(s)

\* C9: a counter that is present holds exactly the number of calls admitted
\* for its key in the current window.
C9_CounterIsAdmitted ==
    \A s \in Slots :
        (InWindow(s, now) /\ Counter(redis_client, KeyOf(s, now), now) # None)
            => Counter(redis_client, KeyOf(s, now), now) = win[s].allowed

(***************************************************************************)
(* Properties of get_signals for the two tiers                             *)
(***************************************************************************)
\* this step serves a signal request
SignalsCall == last'.seq # last.seq /\ last'.op = "signals"
\* the quota counters of the store: values and expiry times
IsQuotaKey(key) == key.ns \in {"signal_limit", "rate_limit:signup", "rate_limit:login"}
QuotaCounters(r) ==
    [data |-> [k \in {x \in DOMAIN r.data : IsQuotaKey(x)} |-> r.data[k]],
     expiry |-> [k \in {x \in DOMAIN r.expiry : IsQuotaKey(x)} |-> r.expiry[k]]]
FullBatch(signals_data) == \E g \in Batches : signals_data = generate_mock_signals(g)

\* C11: a signal request of an account that is paid at request time is
\* allowed whatever counter the account has for the day, returns the full list
\* with user_limit null, and leaves every quota counter (value and expiry) as
\* it was.
C11_PaidBypassesQuota ==
    [][(SignalsCall /\ db[last'.id].is_paid)
        => /\ last'.code = 200 /\ last'.detail = "null"
           /\ FullBatch(last'.signals)
           /\ QuotaCounters(redis_client') = QuotaCounters(redis_client)]_vars

C11_Witness ==
    /\ last.op = "signals" /\ last.id = "a" /\ last.detail = "null"
    /\ Len(last.signals) = 2 * SIGNALS_PER_SYMBOL
    /\ db["a"].is_paid
    /\ Counter(redis_client, SignalKey("a", Today(now)), now) = SIGNAL_LIMIT

\* request p is answered in this step with a list of signals
Served(p) == procs[p].pc # "idle" /\ procs'[p].pc = "idle" /\ procs'[p].resp.code = 200
\* the payload of the cache entry of a day, None when no entry is live
CachedPayload(r, today, t) == Counter(r, CacheKey(today), t)
\* the list a caller of the given tier is sent when the payload is served
ServedFrom(payload, is_paid) ==
    IF is_paid THEN json_loads(payload) ELSE Truncate(json_loads(payload), FREE_SIGNALS)

\* C12 (as stated): a call that completes while a cache entry of its day-key
\* is live obtains the payload of that entry, so that any two calls completing
\* while the entry is live obtain the same payload, concurrent callers
\* included.
C12_SameWhileEntryLive ==
    [][\A p \in Procs :
        (Served(p) /\ CachedPayload(redis_client, procs[p].today, now) # None)
            => procs'[p].resp.signals =
                 ServedFrom(CachedPayload(redis_client, procs[p].today, now), procs[p].is_paid)]_vars

\* C12 (amended): a call obtains the payload of the entry that is live when it
\* completes: a hit returns the stored payload, a miss returns the payload it
\* has just stored (the last writer wins).
C12_ServedWhatIsCached ==
    [][\A p \in Procs :
        Served(p)
            => /\ CachedPayload(redis_client', procs[p].today, now) # None
               /\ procs'[p].resp.signals =
                    ServedFrom(CachedPayload(redis_client', procs[p].today, now), procs[p].is_paid)]_vars

\* two free calls answered with the payload of the entry written at time 0,
\* which is still live at the last instant of its TTL
C12_Witness ==
    /\ now = CACHE_TTL
    /\ Expiry(redis_client, CacheKey(0)) = CACHE_TTL
    /\ \E p, q \in Procs :
          /\ p # q
          /\ procs[p].resp.code = 200 /\ procs[q].resp.code = 200
          /\ procs[p].resp.detail = "3/day (upgrade for unlimited)"
          /\ procs[q].resp.detail = "3/day (upgrade for unlimited)"
          /\ procs[p].resp.signals = procs[q].resp.signals
          /\ procs[p].resp.signals = ServedFrom(CachedPayload(redis_client, 0, now), FALSE)
          /\ win[Slot("signal", "a")].calls = 2

\* the cache entries of the store, live or not
CacheKeys(r) == {k \in DOMAIN r.data : k.ns = "signals:all"}

\* C13: the payload stored in the cache is always a whole batch, whichever
\* tier stored it; a paid caller is sent every entry of the cached payload and
\* a free caller exactly its first FREE_SIGNALS entries.
C13_CacheHoldsFullBatch ==
    /\ [](\A k \in CacheKeys(redis_client) : FullBatch(json_loads(redis_client.data[k])))
    /\ [][(SignalsCall /\ last'.code = 200)
            => /\ CachedPayload(redis_client', Today(now), now) # None
               /\ last'.signals =
                    ServedFrom(CachedPayload(redis_client', Today(now), now), db[last'.id].is_paid)
               /\ Len(last'.signals) =
                    IF db[last'.id].is_paid THEN 2 * SIGNALS_PER_SYMBOL ELSE FREE_SIGNALS]_vars

\* account a made its one free request, was upgraded by the one event
\* processed, and its paid request is served from the entry the free request
\* stored
C13_Witness ==
    /\ db["a"].is_paid
    /\ Marked(redis_client) = {EventOf("evt_co_a")}
    /\ last.op = "signals" /\ last.detail = "null"
    /\ Len(last.signals) = 2 * SIGNALS_PER_SYMBOL
    /\ win[Slot("signal", "a")].calls = 1
    /\ CachedPayload(redis_client, Today(now), now) # None
    /\ Expiry(redis_client, CacheKey(Today(now))) = win[Slot("signal", "a")].start + CACHE_TTL

(***************************************************************************)
(* Properties of the users table                                           *)
(***************************************************************************)
\* C14: a customer reference that is set is never changed by any step, also
\* when checkout initiations of one account are in flight at once.
C14_CustomerRefWrittenOnce ==
    [][\A u \in DOMAIN db :
        db[u].stripe_customer_id # NULL
            => (u \in DOMAIN db' /\ db'[u].stripe_customer_id = db[u].stripe_customer_id)]_vars

(***************************************************************************)
(* Properties of the steps of a webhook delivery                           *)
(***************************************************************************)
\* delivery p is answered in this step with status success
Acknowledged(p) == procs[p].pc = "return" /\ procs'[p].pc = "idle" /\ procs'[p].resp.detail = "success"
\* the marker of the event of delivery p is in the store with its TTL
MarkerWritten(p) ==
    /\ EventKey(procs[p].id) \in DOMAIN redis_client.data
    /\ Expiry(redis_client, EventKey(procs[p].id)) = now + EVENT_TTL

\* C15: a delivery of a handled kind that matched an account is answered
\* success only after its is_paid assignment was committed to the users
\* table: an assignment is uncommitted only between the dispatch and the
\* commit, the commit writes it to the table before any reply, and the reply
\* is produced with nothing uncommitted.
C15_CommittedBeforeAck ==
    /\ [](\A p \in Procs : procs[p].dirty => procs[p].pc = "commit")
    /\ [][\A p \in Procs :
            /\ (procs[p].dirty /\ ~procs'[p].dirty)
                  => (/\ db'[procs[p].user].is_paid = procs[p].is_paid
                      /\ procs'[p].pc = "return"
                      /\ procs'[p].resp = procs[p].resp)
            /\ (Acknowledged(p) /\ procs[p].user # "") => ~procs[p].dirty]_vars

\* the cancellation of account a is acknowledged and committed while a
\* delivery of its checkout holds an uncommitted assignment
C15_Witness ==
    \E p, q \in Procs :
        /\ procs[p].resp.id = "evt_de_a" /\ procs[p].resp.detail = "success"
        /\ db["a"] = User(FALSE, "cus_a")
        /\ procs[q].id = "evt_co_a" /\ procs[q].dirty /\ procs[q].is_paid

\* C16: the marker of an event is written, with its 24 h TTL, before the
\* event changes any entitlement: a delivery is past its mark step only with
\* the marker in the store, and the users table changes only in the commit of
\* such a delivery.
C16_MarkThenAct ==
    /\ [](\A p \in Procs : procs[p].pc \in {"dispatch", "commit", "return"} => MarkerWritten(p))
    /\ [][db' # db => \E p \in Procs : /\ procs[p].pc = "commit" /\ procs'[p].pc = "return"
                                         /\ MarkerWritten(p)]_vars

\* the checkout of account a has been committed by a delivery that is about to
\* reply; its marker is in the store
C16_Witness ==
    \E p \in Procs :
        /\ procs[p].pc = "return" /\ procs[p].id = "evt_co_a" /\ procs[p].user = "a"
        /\ db["a"].is_paid
        /\ MarkerAlive(redis_client, "evt_co_a", now)

(***************************************************************************)
(* Properties of the store client                                          *)
(***************************************************************************)
\* C17: when the store is unreachable, at any time, the rate-limit checks,
\* the signal requests and the webhook fall back to the local store: no
\* request is answered with an error that the unreachable store caused.
C17_FailOpen ==
    last.code # 500

(***************************************************************************)
(* Outcomes of a webhook delivery                                          *)
(***************************************************************************)
Rejected(resp) ==
    resp.code = 400 /\ resp.arg # "ok" /\ resp.detail \in {"Invalid payload", "Invalid signature"}
SkippedDuplicate(resp) == resp.code = 200 /\ resp.arg = "ok" /\ resp.detail = "already_processed"
Processed(resp) ==
    resp.code = 200 /\ resp.arg = "ok" /\ resp.detail = "success"
        /\ resp.event_type = EventOf(resp.id).type

Served_op == IF last'.seq # last.seq THEN last'.op ELSE ""

\* C19: is_paid of an account changes only in a webhook step; signup, login,
\* signal requests, billing status and checkout initiation leave is_paid of
\* every account as it was, and the customer reference of an account is
\* written by no operation other than the webhook and checkout initiation.
\* Accounts are created by signup, free and without customer, and never
\* deleted.
C19_LedgerWriters ==
    [][/\ DOMAIN db \subseteq DOMAIN db'
       /\ \A u \in DOMAIN db :
            /\ db'[u].is_paid # db[u].is_paid => Served_op = "webhook"
            /\ db'[u].stripe_customer_id # db[u].stripe_customer_id
                    => Served_op \in {"webhook", "create-checkout"}
       /\ \A u \in DOMAIN db' \ DOMAIN db : Served_op = "signup" /\ db'[u] = User(FALSE, NULL)]_vars

\* account a signed up, started a checkout and was upgraded by the webhook;
\* account b signed up; a logged in and was served signals as a paid account
C19_Witness ==
    /\ DOMAIN db = {"a", "b"}
    /\ db["a"] = User(TRUE, Customer_create("a", 1))
    /\ db["b"] = User(FALSE, NULL)
    /\ last.op = "signals" /\ last.detail = "null"
    /\ win[Slot("login", "ip1")].calls > 0

(***************************************************************************)
(* Expiry of the counters                                                  *)
(***************************************************************************)
\* C20: every quota counter in the store has an expiry time, also when time
\* passes between the read of a counter and its increment, so that no counter
\* stays for ever and blocks its identity.
C20_CountersCarryTTL ==
    \A k \in DOMAIN redis_client.data : IsQuotaKey(k) => k \in DOMAIN redis_client.expiry

(***************************************************************************)
(* Entitlement and quota of an account that changes tier                   *)
(***************************************************************************)
\* the free requests of the account that were allowed today
AllowedToday(slot) == IF InWindow(slot, now) THEN win[slot].allowed ELSE 0
\* this step processes a delivery
WebhookProcessed == last'.seq # last.seq /\ last'.op = "webhook" /\ last'.detail = "success"

\* C27: the counter of the day is the number of free requests allowed that
\* day, whatever tier changes happened in between; a processed checkout
\* makes the account paid and a processed cancellation makes it free, neither
\* touching a counter; a request made while paid is allowed whatever the
\* counter holds and leaves it as it is; a request made while free is allowed
\* exactly when fewer than 3 free requests were allowed before it that day.
C27_EntitlementAtRequestTime ==
    /\ [](Counter(redis_client, SignalKey("a", Today(now)), now) =
            IF InWindow(Slot("signal", "a"), now) THEN win[Slot("signal", "a")].allowed ELSE None)
    /\ [][/\ WebhookProcessed
               => (/\ db'["a"].is_paid = (last'.event_type = "checkout.session.completed")
                   /\ QuotaCounters(redis_client') = QuotaCounters(redis_client)
                   /\ win' = win)
          /\ (SignalsCall /\ db["a"].is_paid)
               => (/\ last'.code = 200
                   /\ QuotaCounters(redis_client') = QuotaCounters(redis_client)
                   /\ win' = win)
          /\ (SignalsCall /\ ~db["a"].is_paid)
               => ((last'.code = 200) = (AllowedToday(Slot("signal", "a")) < SIGNAL_LIMIT))]_vars

\* the cancellation of the account has just been processed, after its
\* checkout: the counter of the day stands at the two free requests the
\* account made before it was upgraded
C27_Witness ==
    /\ now = 0
    /\ last.op = "webhook" /\ last.id = "evt_de_a" /\ last.detail = "success"
    /\ Marked(redis_client) = TierEvents
    /\ ~db["a"].is_paid
    /\ Counter(redis_client, SignalKey("a", 0), now) = 2
    /\ win[Slot("signal", "a")] = [start |-> 0, calls |-> 2, allowed |-> 2]

(***************************************************************************)
(* A delivery that stops between its marker and its commit                 *)
(***************************************************************************)
\* delivery p stops in this step
Crashes(p) == procs[p].pc \in {"dispatch", "commit"} /\ procs'[p].pc = "idle"
\* delivery p of an event does its idempotency check in this step
Checks(p, event) ==
    /\ procs[p].pc = "idle"
    /\ procs'[p] # procs[p]
    /\ \/ procs'[p].pc = "mark" /\ procs'[p].id = event.id
       \/ procs'[p].pc = "idle" /\ procs'[p].resp.op = "webhook" /\ procs'[p].resp.id = event.id
\* no delivery of the event is between its idempotency check and its reply
NoneInFlight(event) == \A p \in Procs : procs[p].pc = "idle" \/ procs[p].id # event.id

\* C23: a delivery that stops after its marker was written leaves the marker
\* and the users table as they are and takes its uncommitted assignment with
\* it; from then on, as long as the marker is alive, every delivery of the
\* event is answered already_processed at its idempotency check and no step
\* writes the entitlement of the event to the users table.
C23_CrashLeavesMarker ==
    [][/\ \A p \in Procs :
            Crashes(p)
                => /\ redis_client' = redis_client /\ db' = db
                   /\ ~procs'[p].dirty /\ procs'[p].user = ""
                   /\ procs'[p].resp.code = 500
       /\ \A event \in TierEvents :
            (MarkerAlive(redis_client, event.id, now) /\ NoneInFlight(event))
                => /\ \A p \in Procs :
                        Checks(p, event)
                            => /\ SkippedDuplicate(procs'[p].resp) /\ procs'[p].pc = "idle"
                               /\ db' = db
                   /\ \A p \in Procs : procs'[p].pc = "idle" \/ procs'[p].id # event.id
                   /\ db' # db => \E p \in Procs : procs[p].pc = "commit" /\ procs[p].id # event.id]_vars

\* the checkout of the free account a was marked at time 0 and its delivery
\* stopped; a redelivery at the last instant of the marker was answered
\* already_processed, and the account is still free
C23_Witness ==
    /\ now = SECONDS_PER_DAY
    /\ Expiry(redis_client, EventKey("evt_co_a")) = EVENT_TTL
    /\ ~db["a"].is_paid
    /\ \E p, q \in Procs :
            /\ procs[p].pc = "idle" /\ procs[p].resp.code = 500 /\ procs[p].resp.id = "evt_co_a"
            /\ procs[q].pc = "idle" /\ SkippedDuplicate(procs[q].resp) /\ procs[q].resp.id = "evt_co_a"

(***************************************************************************)
(* What a duplicate delivery may conclude from the marker                  *)
(***************************************************************************)
\* the events of a handled kind that select an account
Mutating == {e \in Events : e.type \in HandledTypes /\ AccountsOf(e) # {}}
\* delivery p of the event is answered already_processed in this step
Skips(p, event) == Checks(p, event) /\ procs'[p].pc = "idle" /\ SkippedDuplicate(procs'[p].resp)
\* the entitlement of the event is in the users table
Committed(event) == \A u \in AccountsOf(event) : db[u].is_paid = PaidAfter(event.type)
\* a delivery of the event has written the marker and not yet committed
Pending(event) == \E q \in Procs : procs[q].id = event.id /\ procs[q].pc \in {"dispatch", "commit"}

Commits == {i \in DOMAIN log.entries : log.entries[i].op = "commit"}
CommitsOf(event) == {i \in Commits : log.entries[i].id = event.id}
Quiescent == \A p \in Procs : procs[p].pc = "idle"

WindowSeconds(slot) == IF slot.purpose = "signal" THEN SECONDS_PER_DAY ELSE AUTH_WINDOW
Bucket(slot, t) == t \div WindowSeconds(slot)
\* the recorded calls of a slot, and those allowed between two instants
CallsOf(slot) == {i \in DOMAIN log.entries : log.entries[i].op = slot.purpose /\ log.entries[i].id = slot.id}
AllowedIn(slot, a, b) ==
    Cardinality({i \in CallsOf(slot) : log.entries[i].value /\ a <= log.entries[i].t /\ log.entries[i].t <= b})

\* C21: the signup and login throttle counts per wall-clock 60-second bucket:
\* the first call of an address in a bucket is allowed, whatever it did in the
\* bucket before.
C21_NewBucketAllows ==
    \A slot \in {s \in Slots : s.purpose # "signal"} : \A i \in CallsOf(slot) :
        (\A j \in CallsOf(slot) : j < i => Bucket(slot, log.entries[j].t) # Bucket(slot, log.entries[i].t))
            => log.entries[i].value

\* the instants at which the slot was called
TimesOf(slot) == {log.entries[i].t : i \in CallsOf(slot)}
\* calls of the slot between two instants that were counted in different
\* windows: the interval straddles a window boundary
Straddles(slot, a, b) ==
    \E i, j \in CallsOf(slot) :
        /\ a <= log.entries[i].t /\ log.entries[i].t <= b
        /\ a <= log.entries[j].t /\ log.entries[j].t <= b
        /\ log.entries[i].window # log.entries[j].window

\* C22: of the calls of one slot served one after another, any interval of
\* the length of the window holds at most twice the limit of allowed calls,
\* and holds more than the limit only if it straddles the boundary between
\* two counting windows of the slot.
C22_BurstBound ==
    \A slot \in Slots : \A a, b \in TimesOf(slot) :
        (a <= b /\ b - a < WindowSeconds(slot))
            => /\ AllowedIn(slot, a, b) <= 2 * Limit(slot)
               /\ (AllowedIn(slot, a, b) > Limit(slot)) => Straddles(slot, a, b)

\* 19 signups of one address allowed between second 60 and second 91: the
\* counter opened at second 0 expired in between
C22_Witness ==
    /\ AllowedIn(Slot("signup", "ip1"), 60, 91) = 2 * AUTH_LIMIT - 1
    /\ Straddles(Slot("signup", "ip1"), 60, 91)

(***************************************************************************)
(* Which keys of the shared store a request writes                         *)
(***************************************************************************)
\* what the store holds for a key: its value and its expiry time
Entry(r, key) == <<IF key \in DOMAIN r.data THEN r.data[key] ELSE None, Expiry(r, key)>>
\* the keys whose entry differs between two stores
Changed(r, r2) ==
    {k \in DOMAIN r.data \cup DOMAIN r2.data \cup DOMAIN r.expiry \cup DOMAIN r2.expiry :
        Entry(r, k) # Entry(r2, k)}
\* the keys the request served in this step may write
Owned(resp, today) ==
    CASE resp.op = "signup" -> {k \in {RateKey("signup", resp.id)} : k.ns = "rate_limit:signup"}
      [] resp.op = "login" -> {k \in {RateKey("login", resp.id)} : k.ns = "rate_limit:login"}
      [] resp.op = "signals" ->
            {k \in {SignalKey(resp.id, today), CacheKey(today)} :
                k.day = today /\ k.ns \in {"signal_limit", "signals:all"}}
      [] resp.op = "webhook" -> {k \in {EventKey(resp.id)} : k.ns = "stripe_event"}
      [] OTHER -> {}

\* C28: a request changes no entry of the store but its own: a signup only
\* the signup counter of its address, a login only the login counter of its
\* address, a signal request only the counter of its account for the day and
\* the cache entry of the day, a webhook delivery only the marker of its
\* event; a step that serves no request changes nothing.
C28_KeyIsolation ==
    [][Changed(redis_client, redis_client')
            \subseteq (IF last'.seq # last.seq THEN Owned(last', Today(now)) ELSE {})]_vars

\* on day 1 the store holds the signup and the login counter of the address,
\* the counters of a for day 0 and of b for both days at different values,
\* both cache entries and a marker
C28_Witness ==
    /\ now = SECONDS_PER_DAY
    /\ Entry(redis_client, RateKey("signup", "ip1"))[1] = 1
    /\ Entry(redis_client, RateKey("login", "ip1"))[1] = 2
    /\ Entry(redis_client, SignalKey("a", 0))[1] = 3
    /\ Entry(redis_client, SignalKey("b", 0))[1] = 1
    /\ Entry(redis_client, SignalKey("b", 1))[1] = 2
    /\ {CacheKey(0), CacheKey(1), EventKey("evt_co_a")} \subseteq DOMAIN redis_client.data
    /\ last.op = "signals" /\ last.id = "b"

(***************************************************************************)
(* Age of the cached payload                                               *)
(***************************************************************************)
\* request p is answered in this step from the cache / with a new batch
ServedHit(p) == procs[p].pc = "cache" /\ procs'[p].pc = "idle"
ServedFill(p) == procs[p].pc = "fill" /\ procs'[p].pc = "idle"
\* the cache entries of a day
DayEntries(r, today) == {k \in CacheKeys(r) : k.day = today}

\* C25: a cache entry is written with expiry time now + 300 s, by a request
\* that stores a new batch under the key of its own day, and in no other
\* step; a request served from the cache is served the entry of the key of
\* its own day, not later than the expiry time of the entry, which is 300 s
\* after it was written, whatever the 24 h window of the quota counters.
C25_CacheStaleness ==
    [][/\ \A k \in CacheKeys(redis_client') :
            Entry(redis_client', k) # Entry(redis_client, k)
                => /\ Expiry(redis_client', k) = now + CACHE_TTL
                   /\ \E p \in Procs : ServedFill(p) /\ k.day = procs[p].today
       /\ \A p \in Procs :
            ServedHit(p)
                => \E k \in DayEntries(redis_client, procs[p].today) :
                        /\ Expiry(redis_client, k) # None
                        /\ now - (Expiry(redis_client, k) - CACHE_TTL) <= CACHE_TTL
                        /\ procs'[p].resp.signals = ServedFrom(redis_client.data[k], procs[p].is_paid)]_vars

\* on day 1 the free account is served, as its second request of the day,
\* the entry written at midnight; the entry of day 0 is still in the store
\* and holds another batch
C25_Witness ==
    /\ now = SECONDS_PER_DAY
    /\ win[Slot("signal", "a")] = [start |-> SECONDS_PER_DAY, calls |-> 2, allowed |-> 2]
    /\ Expiry(redis_client, CacheKey(1)) = SECONDS_PER_DAY + CACHE_TTL
    /\ Expiry(redis_client, CacheKey(0)) = CACHE_TTL
    /\ Entry(redis_client, CacheKey(0))[1] # Entry(redis_client, CacheKey(1))[1]
    /\ \A p \in Procs :
            /\ procs[p].pc = "idle" /\ procs[p].resp.code = 200
            /\ procs[p].resp.signals = ServedFrom(redis_client.data[CacheKey(1)], FALSE)

(***************************************************************************)
(* Properties of the in-process store                                      *)
(***************************************************************************)
\* this step is the command op on key
StoreStep(op, key) == last'.seq # last.seq /\ last'.op = op /\ last'.id = key.ns

\* C29: after any sequence of commands of MockRedis every key with an expiry
\* entry has a data entry; get never returns the value of a key whose expiry
\* time has passed; incr on an existing unexpired key keeps the expiry of the
\* key (or its absence) and increases its value by exactly 1.
C29_StoreConsistent ==
    /\ [](DOMAIN redis_client.expiry \subseteq DOMAIN redis_client.data)
    /\ [][\A key \in StoreKeys :
            /\ (StoreStep("get", key) /\ MockRedis_expired(redis_client, key, now))
                    => last'.code = None
            /\ (StoreStep("incr", key) /\ key \in DOMAIN redis_client.data
                    /\ ~MockRedis_expired(redis_client, key, now))
                    => /\ redis_client'.data[key] = redis_client.data[key] + 1
                       /\ last'.code = redis_client.data[key] + 1
                       /\ redis_client'.expiry = redis_client.expiry]_vars

\* an incr at the last instant of the TTL of a key: the value is 2 and the
\* expiry time is the one setex gave at time 0
C29_Witness ==
    /\ now = AUTH_WINDOW
    /\ last.op = "incr" /\ last.id = RateKey("signup", "ip1").ns /\ last.code = 2
    /\ Expiry(redis_client, RateKey("signup", "ip1")) = AUTH_WINDOW
    /\ SignalKey("a", 0) \notin DOMAIN redis_client.data

====
